---- MODULE Spec2Model ----
(***************************************************************************)
(* Model of the Kafka JSON span exporter:                                  *)
(*   src/src/opentelemetry/exporter/kafka/json/__init__.py  KafkaExporter  *)
(*   src/src/opentelemetry/exporter/kafka/json/v1/__init__.py JsonV1Encoder*)
(*   src/tests/my_test.py                        StartEndSpanExporter      *)
(*                                                                         *)
(* Python values are modelled as follows.  None is the string "None".  An  *)
(* optional constructor argument or environment variable is a record       *)
(* [present |-> FALSE] (None / unset) or [present |-> TRUE, val |-> v].    *)
(* A node-list string is a sequence of symbols in which "," is the comma,  *)
(* " " is a blank and every other symbol stands for a run of other         *)
(* characters; a node list is a sequence of such strings.                  *)
(***************************************************************************)
EXTENDS Integers, Sequences, FiniteSets, TLC

VARIABLES
    ctor,          \* arguments and environment the exporter was constructed with
    self,          \* the KafkaExporter object: kafkatopic, kafkanodes, closed, service_name
    pc,            \* position of the export call: "idle", "loop", "done"
    spans,         \* the batch of the export call in progress / last made
    resource,      \* service.name of the batch's resource ("" when it has none)
    idx,           \* 1-based position of the for loop in spans
    rv,            \* local rv of export
    result,        \* value returned by the last export call
    raised,        \* exception that ended the last export call, "none" if it returned
    calls,         \* calls made to the broker client by the export call in progress / last made
    shutdowns,     \* number of shutdown() calls that have returned
    callPost,      \* the export call in progress / last made began after a shutdown() returned
    oPc,           \* position of StartEndSpanExporter.on_start: "idle", "exporting", "returned"
    oSpan,         \* span given to on_start
    oSampled,      \* span.context.trace_flags.sampled of that span
    oExports,      \* export calls made by the on_start call in progress / last made
    oRaised,       \* exception that left that on_start call, "none" if it returned
    suppress,      \* the suppress-instrumentation context value is attached
    pc2,           \* position of an export call made by a second thread
    spans2,        \* its batch
    resource2,     \* service.name of that batch's resource
    idx2,          \* its loop position
    rv2,           \* its local rv
    result2,       \* the value it returned
    raised2,       \* the exception that ended it
    calls2,        \* the calls it made to the broker client
    encIn,         \* span, environment and max_tag_value_length given to the encoder
    doc            \* the document the encoder made of encIn, <<>> before it has run

exportVars == <<pc, spans, resource, idx, rv, result, raised, calls, callPost>>
adapterVars == <<oPc, oSpan, oSampled, oExports, oRaised, suppress>>
export2Vars == <<pc2, spans2, resource2, idx2, rv2, result2, raised2, calls2>>
encVars == <<encIn, doc>>
vars == <<ctor, self, shutdowns, exportVars, adapterVars, export2Vars, encVars>>

\* some shutdown() call has returned
hasShutdown == shutdowns > 0

(***************************************************************************)
(* Bounds and input domains                                                *)
(***************************************************************************)
MaxBatch == 3
MaxShutdowns == 2
MaxOtherBatch == 1
MaxTick == 15

None == "None"
Absent == [present |-> FALSE]
Some(v) == [present |-> TRUE, val |-> v]

TraceIds == {10, 255}
SpanKinds == {"CLIENT", "UNKNOWN"}
Spans == [trace_id : TraceIds, kind : SpanKinds]
ResourceNames == {"", "svcA"}
TracerProviderNames == {"svc0"}

RECURSIVE SeqsUpTo(_, _)
SeqsUpTo(S, n) ==
    IF n = 0 THEN {<<>>}
    ELSE SeqsUpTo(S, n - 1) \cup [1..n -> S]

Batches == SeqsUpTo(Spans, MaxBatch)

ArgTopics == {Absent, Some(""), Some("traces")}
EnvTopics == {Absent, Some(""), Some("envtopic")}
ArgNodes == {Absent, Some(<<>>), Some(<< <<"broker:9092">> >>)}
EnvNodes == {Absent, Some(<<>>), Some(<<"h1">>),
             Some(<<"h1", ",", " ", "h2", " ">>), Some(<<" ", "h1", ",">>)}
UnsetEnv == {Absent}

\* the fields of a span that the batches of export hold fixed
SpanOf(s) ==
    [name |-> "op", trace_id |-> s.trace_id, span_id |-> 7, parent |-> Absent,
     kind |-> s.kind, status |-> "UNSET", start_time |-> 1000, end_time |-> Absent,
     attributes |-> <<>>]

\* SITE and INSTALLTYPE unset, the user name of the process
ProcessEnv == [SITE |-> Absent, INSTALLTYPE |-> Absent, user |-> <<"root">>]

\* batches and resources of the second thread
Batches2 == SeqsUpTo(Spans, MaxOtherBatch)
ResourceNames2 == {"", "svcB"}

\* inputs of the encoder
Nanos == {100 * k : k \in 0..MaxTick}
SpanIds == {7, 171}
EncKinds == {"INTERNAL", "CLIENT"}
TagValues == {<<"a">>, <<"a", "b", "c">>}
AttributeSets ==
    {<<>>} \cup {("enduser.id" :> v) : v \in TagValues}
           \cup {("location.site" :> v) @@ ("http.method" :> <<"GET">>) : v \in TagValues}
           \cup {("deployment.environment" :> <<"prod">>) @@ ("enduser.id" :> <<"root">>)}
EncSpans ==
    {sp \in [name : {"op"}, trace_id : {255}, span_id : {7},
             parent : {Absent} \cup {Some(i) : i \in SpanIds},
             kind : EncKinds, status : {"OK"},
             start_time : Nanos, end_time : {Absent} \cup {Some(n) : n \in Nanos},
             attributes : AttributeSets] :
        sp.end_time.present => sp.start_time <= sp.end_time.val}
EncEnvs == [SITE : {Absent, Some(<<"sjc">>)}, INSTALLTYPE : {Absent}, user : {<<"root">>}]
MaxTagValueLengths == {0, 2}
EncInputs == [span : EncSpans, env : EncEnvs, max_tag_value_length : MaxTagValueLengths]
NoEncInput ==
    [span |-> SpanOf([trace_id |-> 10, kind |-> "CLIENT"]), env |-> ProcessEnv,
     max_tag_value_length |-> 0]

\* what producer.produce can do: return None, return an error value (an object,
\* truthy as Python objects are), raise (BufferError, KafkaException, a timeout)
ProduceOutcomes == {None, "Err", "Raise"}

(***************************************************************************)
(* Python helpers                                                          *)
(***************************************************************************)
\* bool(v) for the values rv takes: None is falsy, an error value is truthy
IsTruthy(v) == v # None

\* environ.get(NAME) or default; empty is the empty value of the type ("" is falsy)
EnvOr(env, default, empty) ==
    IF env.present /\ env.val # empty THEN env.val ELSE default

RECURSIVE SplitAcc(_, _, _)
SplitAcc(s, cur, acc) ==
    IF s = <<>> THEN Append(acc, cur)
    ELSE IF Head(s) = "," THEN SplitAcc(Tail(s), <<>>, Append(acc, cur))
    ELSE SplitAcc(Tail(s), Append(cur, Head(s)), acc)

\* s.split(',')
Split(s) == SplitAcc(s, <<>>, <<>>)

RECURSIVE LStrip(_)
LStrip(s) == IF s # <<>> /\ Head(s) = " " THEN LStrip(Tail(s)) ELSE s

RECURSIVE RStrip(_)
RStrip(s) ==
    IF s # <<>> /\ s[Len(s)] = " " THEN RStrip(SubSeq(s, 1, Len(s) - 1)) ELSE s

\* s.strip()
Strip(s) == LStrip(RStrip(s))

HexDigits == <<"0", "1", "2", "3", "4", "5", "6", "7",
               "8", "9", "a", "b", "c", "d", "e", "f">>

RECURSIVE ToHex(_)
ToHex(n) ==
    IF n < 16 THEN <<HexDigits[n + 1]>>
    ELSE ToHex(n \div 16) \o <<HexDigits[(n % 16) + 1]>>

RECURSIVE ZeroPad(_, _)
ZeroPad(s, width) == IF Len(s) >= width THEN s ELSE ZeroPad(<<"0">> \o s, width)

\* format_trace_id(trace_id) == format(trace_id, "032x")
format_trace_id(n) == ZeroPad(ToHex(n), 32)

(***************************************************************************)
(* KafkaExporter.__init__                                                  *)
(***************************************************************************)
DEFAULT_KAFKATOPIC == "unknown_topic"
DEFAULT_KAFKANODES == <<"localhost:9092">>

ResolveTopicEnvFirst(arg, env) ==
    IF env.present /\ env.val # "" THEN env.val
    ELSE IF arg.present THEN arg.val ELSE DEFAULT_KAFKATOPIC

ResolveTopic(arg, env) ==
    IF ~arg.present THEN EnvOr(env, DEFAULT_KAFKATOPIC, "") ELSE arg.val

ResolveNodes(arg, env) ==
    IF ~arg.present
    THEN LET parts == Split(EnvOr(env, DEFAULT_KAFKANODES, <<>>))
         IN [i \in 1..Len(parts) |-> Strip(parts[i])]
    ELSE arg.val

KafkaExporter(kafkatopic, envTopic, kafkanodes, envNodes, svc) ==
    [kafkatopic |-> ResolveTopic(kafkatopic, envTopic),
     kafkanodes |-> ResolveNodes(kafkanodes, envNodes),
     service_name |-> svc,
     closed |-> FALSE]

CtorArgs(kafkatopic, envTopic, kafkanodes, envNodes) ==
    [kafkatopic |-> kafkatopic, envTopic |-> envTopic,
     kafkanodes |-> kafkanodes, envNodes |-> envNodes]

\* no export and no on_start call has been made, or the caller has dropped the last one
NoCall ==
    /\ pc = "idle" /\ spans = <<>> /\ resource = "" /\ idx = 1 /\ rv = None
    /\ result = "pending" /\ raised = "none" /\ calls = <<>> /\ callPost = FALSE
    /\ oPc = "idle" /\ oSpan = [trace_id |-> 10, kind |-> "CLIENT"]
    /\ oSampled = FALSE /\ oExports = 0 /\ oRaised = "none" /\ suppress = FALSE

\* the second thread has made no export call, or has dropped the last one
NoCall2 ==
    /\ pc2 = "idle" /\ spans2 = <<>> /\ resource2 = "" /\ idx2 = 1 /\ rv2 = None
    /\ result2 = "pending" /\ raised2 = "none" /\ calls2 = <<>>

Init ==
    /\ \E at \in ArgTopics, an \in ArgNodes, et \in UnsetEnv, en \in UnsetEnv,
          svc \in TracerProviderNames :
          /\ ctor = CtorArgs(at, et, an, en)
          /\ self = KafkaExporter(at, et, an, en, svc)
    /\ shutdowns = 0
    /\ NoCall
    /\ NoCall2
    /\ encIn = NoEncInput
    /\ doc = <<>>

\* a new exporter is constructed in place of the current one
Construct ==
    /\ \E at \in ArgTopics, an \in ArgNodes, et \in EnvTopics, en \in EnvNodes,
          svc \in TracerProviderNames :
          /\ ctor' = CtorArgs(at, et, an, en)
          /\ self' = KafkaExporter(at, et, an, en, svc)
    /\ shutdowns' = 0
    /\ UNCHANGED <<exportVars, adapterVars, export2Vars, encVars>>

(***************************************************************************)
(* KafkaExporter.export                                                    *)
(***************************************************************************)
SPAN_KIND_MAP ==
    [k \in {"INTERNAL", "SERVER", "CLIENT", "PRODUCER", "CONSUMER"} |->
        IF k = "INTERNAL" THEN None ELSE k]

\* self.encoder.serialize(span, self.local_node) raises KeyError at
\* SPAN_KIND_MAP[span.kind] for a kind that is not in the map
SerializeRaises(span) == span.kind \notin DOMAIN SPAN_KIND_MAP

(***************************************************************************)
(* JsonV1Encoder                                                           *)
(*                                                                         *)
(* A document is a function from keys to values (a Python dict); a JSON    *)
(* text is modelled by the document it denotes.  Tag values and            *)
(* identifiers are sequences of symbols.  A value that may be null is      *)
(* JNull or JVal(v).  Spans carry no events, so no annotations are made.   *)
(***************************************************************************)
JNull == [null |-> TRUE]
JVal(v) == [null |-> FALSE, v |-> v]

\* d.update(e)
Update(d, e) == e @@ d

\* environ.get(NAME, default)
EnvGet(env, default) == IF env.present THEN env.val ELSE default

\* 128-bit trace id as 32 lowercase hex digits
encode_trace_id(n) == ZeroPad(ToHex(n), 32)

\* 64-bit span id as 16 lowercase hex digits
encode_span_id(n) == ZeroPad(ToHex(n), 16)

\* nanoseconds to microseconds, rounded to nearest
nsec_to_usec_round(nsec) == (nsec + 500) \div 1000

\* a tag value cut to max_tag_value_length symbols; 0 is no limit
Truncate(v, max) == IF max > 0 /\ Len(v) > max THEN SubSeq(v, 1, max) ELSE v

extract_tags_from_dict(attrs, max) ==
    [k \in DOMAIN attrs |-> Truncate(attrs[k], max)]

extract_tags_from_span(span, max) == extract_tags_from_dict(span.attributes, max)

\* the parent's span id, None for a span without parent
get_parent_id(parent) == IF parent.present THEN JVal(parent.val) ELSE JNull

encode_local_endpoint(local_node) ==
    "service_name" :> <<local_node.service_name>>

StatusValue == [c \in {"UNSET", "OK", "ERROR"} |->
                   IF c = "UNSET" THEN 0 ELSE IF c = "OK" THEN 1 ELSE 2]

\* lines 61-83: the dict literal
EncodedSpanLiteral(span, env) ==
    ("name" :> span.name)
    @@ ("trace_id" :> encode_trace_id(span.trace_id))
    @@ ("span_id" :> encode_span_id(span.span_id))
    @@ ("trace_state" :> <<>>)
    @@ ("parent_id" :> IF span.parent.present
                       THEN JVal(encode_span_id(span.parent.val)) ELSE JNull)
    @@ ("status.status_code" :> span.status)
    @@ ("status.status_value" :> StatusValue[span.status])
    @@ ("timestamp" :> nsec_to_usec_round(span.start_time))
    @@ ("start_time" :> nsec_to_usec_round(span.start_time))
    @@ ("enduser.id" :> env.user)
    @@ ("location.site" :> EnvGet(env.SITE, <<"unknown">>))
    @@ ("deployment.environment" :> EnvGet(env.INSTALLTYPE, <<"staging">>))
    @@ ("kind" :> <<"SpanKind.", SPAN_KIND_MAP[span.kind]>>)

WithEndTimeDifference(d, span) ==
    IF span.end_time.present /\ span.end_time.val # 0
    THEN Update(d, ("end_time" :> nsec_to_usec_round(span.end_time.val))
                   @@ ("duration" :>
                         nsec_to_usec_round(span.end_time.val)
                         - nsec_to_usec_round(span.start_time)))
    ELSE d

\* lines 86-90
WithEndTime(d, span) ==
    IF span.end_time.present /\ span.end_time.val # 0
    THEN Update(d, ("end_time" :> nsec_to_usec_round(span.end_time.val))
                   @@ ("duration" :>
                         nsec_to_usec_round(span.end_time.val - span.start_time)))
    ELSE d

WithParentIdNever(d, span) == d

\* lines 104-106
WithParentId(d, span) ==
    LET parent_id == get_parent_id(span.parent)
    IN IF ~parent_id.null
       THEN Update(d, "parentId" :> encode_span_id(parent_id.v)) ELSE d

encode_span_defaults_last(span, encoded_local_endpoint, env, max) ==
    LET literal == EncodedSpanLiteral(span, env)
        merged == Update(literal, encoded_local_endpoint)
        timed == WithEndTime(merged, span)
        linked == WithParentId(timed, span)
        attributes == extract_tags_from_dict(span.attributes, max)
        defaults == [k \in {"enduser.id", "location.site", "deployment.environment"}
                        |-> literal[k]]
    IN Update(Update(linked, attributes), defaults)

\* lines 39-112
encode_span(span, encoded_local_endpoint, env, max) ==
    LET literal == EncodedSpanLiteral(span, env)
        merged == Update(literal, encoded_local_endpoint)
        timed == WithEndTime(merged, span)
        tags == extract_tags_from_span(span, max)
        tagged == IF DOMAIN tags # {} THEN Update(timed, tags) ELSE timed
        linked == WithParentId(tagged, span)
        attributes == extract_tags_from_dict(span.attributes, max)
    IN IF DOMAIN attributes # {} THEN Update(linked, attributes) ELSE linked

\* serialize(span, local_node): the document of the span as JSON
serialize(span, local_node, env, max) ==
    encode_span(span, encode_local_endpoint(local_node), env, max)

\* not (self.kafkanodes and self.kafkatopic)
ConfigAbsent(e) == ~(e.kafkanodes # <<>> /\ e.kafkatopic # "")

ExportResultAlwaysSuccess(v) == "SUCCESS"

\* lines 193-196
ExportResult(v) == IF v # None THEN "FAILURE" ELSE "SUCCESS"

ProduceCallFirstKey(i, span, out) ==
    [op |-> "produce", i |-> i, topic |-> self.kafkatopic,
     key |-> format_trace_id(spans[1].trace_id),
     value |-> serialize(SpanOf(span), self, ProcessEnv, 0),
     res |-> out, late |-> hasShutdown]

ProduceCall(i, span, out) ==
    [op |-> "produce", i |-> i, topic |-> self.kafkatopic,
     key |-> format_trace_id(span.trace_id),
     value |-> serialize(SpanOf(span), self, ProcessEnv, 0),
     res |-> out, late |-> hasShutdown]

FlushCall(i) == [op |-> "flush", i |-> i, late |-> hasShutdown]

PublishedNoFlush(i, span, out) == <<ProduceCall(i, span, out)>>

\* lines 189-191: produce returned, then producer.flush()
Published(i, span, out) == <<ProduceCall(i, span, out), FlushCall(i)>>

Raise(exc) ==
    /\ raised' = exc
    /\ result' = "noreturn"
    /\ pc' = "done"

ExportEnterIgnoreClosed(batch, svc) ==
    /\ spans' = batch
    /\ resource' = svc
    /\ calls' = <<>>
    /\ raised' = "none"
    /\ callPost' = hasShutdown
    /\ idx' = 1
    /\ rv' = None
    /\ pc' = "loop"
    /\ result' = "pending"
    /\ self' = IF batch # <<>> /\ svc # ""
               THEN [self EXCEPT !.service_name = svc] ELSE self

ExportEnterAlwaysOverwrite(batch, svc) ==
    /\ spans' = batch
    /\ resource' = svc
    /\ calls' = <<>>
    /\ raised' = "none"
    /\ callPost' = hasShutdown
    /\ idx' = 1
    /\ rv' = None
    /\ IF self.closed
       THEN /\ pc' = "done"
            /\ result' = "FAILURE"
            /\ self' = self
       ELSE /\ pc' = "loop"
            /\ result' = "pending"
            /\ self' = IF batch # <<>>
                       THEN [self EXCEPT !.service_name = svc] ELSE self

\* lines 163-179: entry of the call, up to the start of the loop
ExportEnter(batch, svc) ==
    /\ spans' = batch
    /\ resource' = svc
    /\ calls' = <<>>
    /\ raised' = "none"
    /\ callPost' = hasShutdown
    /\ idx' = 1
    /\ rv' = None
    /\ IF self.closed
       THEN /\ pc' = "done"
            /\ result' = "FAILURE"
            /\ self' = self
       ELSE /\ pc' = "loop"
            /\ result' = "pending"
            /\ self' = IF batch # <<>> /\ svc # ""
                       THEN [self EXCEPT !.service_name = svc] ELSE self

\* export(spans) called by the span processor
Export ==
    /\ pc = "idle"
    /\ oPc = "idle"
    /\ \E batch \in Batches, svc \in ResourceNames : ExportEnter(batch, svc)
    /\ UNCHANGED <<ctor, shutdowns, adapterVars, export2Vars, encVars>>

\* lines 180-191: one iteration of the loop
ExportSpan ==
    /\ pc = "loop"
    /\ idx <= Len(spans)
    /\ LET span == spans[idx] IN
       IF SerializeRaises(span)
       THEN Raise("KeyError") /\ UNCHANGED <<idx, rv, calls>>
       ELSE IF ConfigAbsent(self)
       THEN \* line 186 reads self.kafka_nodes, which no line ever sets
            Raise("AttributeError") /\ UNCHANGED <<idx, rv, calls>>
       ELSE IF IsTruthy(rv)
       THEN \* rv or producer.produce(...): produce is not evaluated
            /\ calls' = Append(calls, FlushCall(idx))
            /\ idx' = idx + 1
            /\ UNCHANGED <<rv, pc, result, raised>>
       ELSE \E out \in ProduceOutcomes :
            IF out = "Raise"
            THEN /\ calls' = Append(calls, ProduceCall(idx, span, out))
                 /\ Raise("KafkaException")
                 /\ UNCHANGED <<idx, rv>>
            ELSE /\ rv' = out
                 /\ calls' = calls \o Published(idx, span, out)
                 /\ idx' = idx + 1
                 /\ UNCHANGED <<pc, result, raised>>
    /\ UNCHANGED <<ctor, self, shutdowns, spans, resource, callPost, adapterVars,
                   export2Vars, encVars>>

\* lines 193-196: after the loop
ExportReturn ==
    /\ pc = "loop"
    /\ idx > Len(spans)
    /\ result' = ExportResult(rv)
    /\ pc' = "done"
    /\ UNCHANGED <<ctor, self, shutdowns, spans, resource, idx, rv, raised,
                   calls, callPost, adapterVars, export2Vars, encVars>>

(***************************************************************************)
(* KafkaExporter.shutdown                                                  *)
(***************************************************************************)
ShutdownToggle ==
    /\ self' = [self EXCEPT !.closed = ~self.closed]
    /\ shutdowns < MaxShutdowns
    /\ shutdowns' = shutdowns + 1
    /\ UNCHANGED <<ctor, exportVars, adapterVars, export2Vars, encVars>>

Shutdown ==
    /\ self' = IF self.closed THEN self ELSE [self EXCEPT !.closed = TRUE]
    /\ shutdowns < MaxShutdowns
    /\ shutdowns' = shutdowns + 1
    /\ UNCHANGED <<ctor, exportVars, adapterVars, export2Vars, encVars>>

\* shutdown() called while no export or on_start call is in progress
ShutdownSeq ==
    /\ pc = "idle"
    /\ oPc = "idle"
    /\ Shutdown

(***************************************************************************)
(* StartEndSpanExporter.on_start                                           *)
(***************************************************************************)
CaughtOnlyBroker(exc) == exc = "KafkaException"

\* except Exception: KeyError, AttributeError and KafkaException derive from it
Caught(exc) == exc \in {"KeyError", "AttributeError", "KafkaException"}

\* my_test.py lines 43-47: entry of on_start up to the export call
OnStart ==
    /\ oPc = "idle"
    /\ pc = "idle"
    /\ \E span \in Spans, sampled \in BOOLEAN, svc \in ResourceNames :
          /\ oSpan' = span
          /\ oSampled' = sampled
          /\ oRaised' = "none"
          /\ IF ~sampled
             THEN /\ oPc' = "returned"
                  /\ oExports' = 0
                  /\ UNCHANGED <<self, exportVars, suppress>>
             ELSE /\ suppress' = TRUE
                  /\ oExports' = 1
                  /\ oPc' = "exporting"
                  /\ ExportEnter(<<span>>, svc)
    /\ UNCHANGED <<ctor, shutdowns, export2Vars, encVars>>

\* my_test.py lines 48-51: the export call has ended
OnStartReturn ==
    /\ oPc = "exporting"
    /\ pc = "done"
    /\ IF raised = "none" \/ Caught(raised)
       THEN oRaised' = "none" /\ suppress' = FALSE
       ELSE oRaised' = raised /\ suppress' = suppress
    /\ oPc' = "returned"
    /\ UNCHANGED <<ctor, self, shutdowns, exportVars, oSpan, oSampled, oExports,
                   export2Vars, encVars>>

\* the caller drops the value export returned (my_test.py line 47 keeps none) and
\* goes on: the finished call and the finished on_start leave no state behind
CallerContinues ==
    /\ \/ pc = "done" /\ oPc = "idle"
       \/ oPc = "returned"
    /\ pc' = "idle" /\ spans' = <<>> /\ resource' = "" /\ idx' = 1 /\ rv' = None
    /\ result' = "pending" /\ raised' = "none" /\ calls' = <<>> /\ callPost' = FALSE
    /\ oPc' = "idle" /\ oSpan' = [trace_id |-> 10, kind |-> "CLIENT"]
    /\ oSampled' = FALSE /\ oExports' = 0 /\ oRaised' = "none" /\ suppress' = FALSE
    /\ UNCHANGED <<ctor, self, shutdowns, export2Vars, encVars>>

(***************************************************************************)
(* KafkaExporter.export called by a second thread on the same exporter     *)
(***************************************************************************)
\* lines 163-179
Export2 ==
    /\ pc2 = "idle"
    /\ \E batch \in Batches2, svc \in ResourceNames2 :
          /\ spans2' = batch
          /\ resource2' = svc
          /\ calls2' = <<>>
          /\ raised2' = "none"
          /\ idx2' = 1
          /\ rv2' = None
          /\ IF self.closed
             THEN /\ pc2' = "done"
                  /\ result2' = "FAILURE"
                  /\ self' = self
             ELSE /\ pc2' = "loop"
                  /\ result2' = "pending"
                  /\ self' = IF batch # <<>> /\ svc # ""
                             THEN [self EXCEPT !.service_name = svc] ELSE self
    /\ UNCHANGED <<ctor, shutdowns, exportVars, adapterVars, encVars>>

\* lines 180-191
ExportSpan2 ==
    /\ pc2 = "loop"
    /\ idx2 <= Len(spans2)
    /\ LET span == spans2[idx2]
           Raise2(exc) == raised2' = exc /\ result2' = "noreturn" /\ pc2' = "done"
       IN
       IF SerializeRaises(span)
       THEN Raise2("KeyError") /\ UNCHANGED <<idx2, rv2, calls2>>
       ELSE IF ConfigAbsent(self)
       THEN Raise2("AttributeError") /\ UNCHANGED <<idx2, rv2, calls2>>
       ELSE IF IsTruthy(rv2)
       THEN /\ calls2' = Append(calls2, FlushCall(idx2))
            /\ idx2' = idx2 + 1
            /\ UNCHANGED <<rv2, pc2, result2, raised2>>
       ELSE \E out \in ProduceOutcomes :
            IF out = "Raise"
            THEN /\ calls2' = Append(calls2, ProduceCall(idx2, span, out))
                 /\ Raise2("KafkaException")
                 /\ UNCHANGED <<idx2, rv2>>
            ELSE /\ rv2' = out
                 /\ calls2' = calls2 \o Published(idx2, span, out)
                 /\ idx2' = idx2 + 1
                 /\ UNCHANGED <<pc2, result2, raised2>>
    /\ UNCHANGED <<ctor, self, shutdowns, exportVars, adapterVars, spans2, resource2,
                   encVars>>

\* lines 193-196
ExportReturn2 ==
    /\ pc2 = "loop"
    /\ idx2 > Len(spans2)
    /\ result2' = ExportResult(rv2)
    /\ pc2' = "done"
    /\ UNCHANGED <<ctor, self, shutdowns, exportVars, adapterVars, spans2, resource2,
                   idx2, rv2, raised2, calls2, encVars>>

\* the second thread drops the value export returned and goes on
CallerContinues2 ==
    /\ pc2 = "done"
    /\ pc2' = "idle" /\ spans2' = <<>> /\ resource2' = "" /\ idx2' = 1 /\ rv2' = None
    /\ result2' = "pending" /\ raised2' = "none" /\ calls2' = <<>>
    /\ UNCHANGED <<ctor, self, shutdowns, exportVars, adapterVars, encVars>>

(***************************************************************************)
(* JsonV1Encoder applied to one span                                       *)
(***************************************************************************)
InitEncode ==
    /\ ctor = CtorArgs(Absent, Absent, Absent, Absent)
    /\ \E svc \in TracerProviderNames :
          self = KafkaExporter(Absent, Absent, Absent, Absent, svc)
    /\ shutdowns = 0
    /\ NoCall
    /\ NoCall2
    /\ encIn \in EncInputs
    /\ doc = <<>>

Encode ==
    /\ doc = <<>>
    /\ doc' = serialize(encIn.span, self, encIn.env, encIn.max_tag_value_length)
    /\ UNCHANGED <<ctor, self, shutdowns, exportVars, adapterVars, export2Vars, encIn>>

(***************************************************************************)
(* Specifications                                                          *)
(***************************************************************************)
\* one caller: calls do not overlap
Next == Export \/ ExportSpan \/ ExportReturn \/ ShutdownSeq \/ OnStart \/ OnStartReturn
          \/ CallerContinues

Spec == Init /\ [][Next]_vars

\* shutdown() is called from another thread than export
NextConc == Export \/ ExportSpan \/ ExportReturn \/ Shutdown \/ OnStart \/ OnStartReturn
          \/ CallerContinues

SpecConc == Init /\ [][NextConc]_vars

\* two threads call export on the same exporter
NextTwo == Export \/ ExportSpan \/ ExportReturn \/ CallerContinues
           \/ Export2 \/ ExportSpan2 \/ ExportReturn2 \/ CallerContinues2

SpecTwo == Init /\ [][NextTwo]_vars

\* the encoder alone, over the spans, environments and tag limits of EncInputs
SpecEncode == InitEncode /\ [][Encode]_vars

\* construction alone: exporters are constructed over every combination of
\* argument and environment
SpecConfig == Init /\ [][Construct]_vars

(***************************************************************************)
(* Properties                                                              *)
(***************************************************************************)
\* the export call in progress / last made was entered with the exporter OPEN
EnteredOpen == ~callPost

Produced(i) == {j \in DOMAIN calls : calls[j].op = "produce" /\ calls[j].i = i}

ErrorReported == \E j \in DOMAIN calls : calls[j].op = "produce" /\ calls[j].res = "Err"

BrokerRaised == \E j \in DOMAIN calls : calls[j].op = "produce" /\ calls[j].res = "Raise"

AllSerializable == \A i \in DOMAIN spans : ~SerializeRaises(spans[i])

\* C1: an export call entered after a shutdown() has returned ends at once with
\* FAILURE, whatever the batch and the configuration, and makes no produce and no
\* flush call.
ExportAfterShutdownFails ==
    callPost =>
        /\ pc = "done"
        /\ result = "FAILURE"
        /\ raised = "none"
        /\ calls = <<>>

ExportAfterShutdownSeen ==
    /\ callPost
    /\ pc = "done"
    /\ Len(spans) >= 2
    /\ ~ConfigAbsent(self)

\* C2 (as claimed): an export call entered OPEN with topic and nodes set, which
\* returns, has published every span of the batch exactly once, whatever the
\* broker returned for the earlier spans.
EverySpanPublishedOnce ==
    (pc = "done" /\ EnteredOpen /\ raised = "none" /\ ~ConfigAbsent(self)) =>
        \A i \in 1..Len(spans) : Cardinality(Produced(i)) = 1

\* C3: an export call entered OPEN with topic and nodes set, which returns,
\* returns FAILURE exactly when the broker client returned an error value for a
\* span of the batch and SUCCESS otherwise; an empty batch returns SUCCESS with
\* no broker call.
BatchResult ==
    (pc = "done" /\ EnteredOpen /\ raised = "none" /\ ~ConfigAbsent(self)) =>
        /\ result \in {"SUCCESS", "FAILURE"}
        /\ (result = "FAILURE") <=> ErrorReported
        /\ spans = <<>> => (result = "SUCCESS" /\ calls = <<>>)

BatchResultSeen ==
    /\ pc = "done" /\ EnteredOpen /\ raised = "none" /\ ~ConfigAbsent(self)
    /\ result = "FAILURE"
    /\ Len(spans) >= 2
    /\ calls[1].op = "produce" /\ calls[1].res = None

\* C4 (as claimed): an export call entered OPEN with an empty topic or node list
\* and a non-empty batch makes no produce call, does not raise, goes through
\* every span of the batch and does not return FAILURE.
EmptyConfigSkipsDelivery ==
    (pc = "done" /\ EnteredOpen /\ ConfigAbsent(self) /\ spans # <<>> /\ AllSerializable) =>
        /\ raised = "none"
        /\ \A j \in DOMAIN calls : calls[j].op # "produce"
        /\ idx = Len(spans) + 1
        /\ result # "FAILURE"

\* C5 (as claimed): every export call ends by returning SUCCESS or FAILURE; the
\* only exception that leaves it is the encoder's, never one caused by the
\* configuration or by delivery.
ExportReturnsResult ==
    pc = "done" =>
        \/ raised = "none" /\ result \in {"SUCCESS", "FAILURE"}
        \/ raised = "KeyError"

\* C6: the exporter starts OPEN, is CLOSED from the first shutdown() on, never
\* becomes OPEN again, and every step taken on a CLOSED exporter, a further
\* shutdown() included, leaves the whole exporter object as it is.
StateMonotonic ==
    /\ [](hasShutdown <=> self.closed)
    /\ [][self.closed => self' = self]_vars

SecondShutdownSeen ==
    /\ shutdowns >= 2
    /\ self.closed
    /\ self.kafkatopic = "traces"

\* C7 (as claimed): no produce call is made once a shutdown() has returned, also
\* when shutdown() is called while an export call is in progress.
NoPublishAfterShutdown ==
    \A j \in DOMAIN calls : calls[j].op = "produce" => ~calls[j].late

\* C8 (as claimed): when the broker client raises on the publish of a span, the
\* export call still attempts every span of the batch and returns FAILURE.
BrokerRaiseIsSpanFailure ==
    (pc = "done" /\ BrokerRaised) =>
        /\ raised = "none"
        /\ result = "FAILURE"
        /\ \A i \in 1..Len(spans) : Produced(i) # {}

IsBlank(c) == c = " "

\* the part of s between its (k-1)-th and k-th comma, by position
CommaPositions(s) == {i \in 1..Len(s) : s[i] = ","}

KthComma(s, k) ==
    IF k = 0 THEN 0
    ELSE IF k > Cardinality(CommaPositions(s)) THEN Len(s) + 1
    ELSE CHOOSE p \in CommaPositions(s) :
            Cardinality({q \in CommaPositions(s) : q < p}) = k - 1

PartAt(s, k) == SubSeq(s, KthComma(s, k - 1) + 1, KthComma(s, k) - 1)

\* t without its leading and trailing blanks, by position
Trimmed(t) ==
    LET keep == {i \in 1..Len(t) : ~IsBlank(t[i])}
    IN IF keep = {} THEN <<>>
       ELSE SubSeq(t, CHOOSE i \in keep : \A j \in keep : i <= j,
                      CHOOSE i \in keep : \A j \in keep : i >= j)

NodesOf(s) ==
    [k \in 1..(Cardinality(CommaPositions(s)) + 1) |-> Trimmed(PartAt(s, k))]

NonEmpty(opt, empty) == opt.present /\ opt.val # empty

\* C9 (as claimed): topic and node list are each the first non-empty of the
\* constructor argument, the environment variable and the default.
FirstNonEmptyWins ==
    /\ self.kafkatopic =
          IF NonEmpty(ctor.kafkatopic, "") THEN ctor.kafkatopic.val
          ELSE IF NonEmpty(ctor.envTopic, "") THEN ctor.envTopic.val
          ELSE DEFAULT_KAFKATOPIC
    /\ self.kafkanodes =
          IF NonEmpty(ctor.kafkanodes, <<>>) THEN ctor.kafkanodes.val
          ELSE IF NonEmpty(ctor.envNodes, <<>>) THEN NodesOf(ctor.envNodes.val)
          ELSE NodesOf(DEFAULT_KAFKANODES)

\* C9 (amended): a constructor argument that is given wins even when it is empty;
\* only when the argument is absent is the value the environment variable's if
\* that is non-empty (the node list split on commas, each part trimmed) and the
\* default otherwise.
GivenArgumentWins ==
    /\ self.kafkatopic =
          IF ctor.kafkatopic.present THEN ctor.kafkatopic.val
          ELSE IF NonEmpty(ctor.envTopic, "") THEN ctor.envTopic.val
          ELSE DEFAULT_KAFKATOPIC
    /\ self.kafkanodes =
          IF ctor.kafkanodes.present THEN ctor.kafkanodes.val
          ELSE IF NonEmpty(ctor.envNodes, <<>>) THEN NodesOf(ctor.envNodes.val)
          ELSE NodesOf(DEFAULT_KAFKANODES)

EmptyArgumentSeen ==
    /\ ctor.kafkatopic = Some("")
    /\ ctor.envTopic = Some("envtopic")
    /\ self.kafkatopic = ""
    /\ ~ctor.kafkanodes.present
    /\ ctor.envNodes = Some(<<"h1", ",", " ", "h2", " ">>)
    /\ self.kafkanodes = << <<"h1">>, <<"h2">> >>

\* C10: on_start calls export once, with the span alone, when the span is sampled
\* and not at all when it is not; the suppression value is attached during that
\* call; no exception leaves on_start and the value is detached when it returns.
OnStartContains ==
    /\ oPc = "exporting" =>
          /\ oSampled
          /\ oExports = 1
          /\ spans = <<oSpan>>
          /\ suppress
    /\ oPc = "returned" =>
          /\ oExports = (IF oSampled THEN 1 ELSE 0)
          /\ oRaised = "none"
          /\ ~suppress

OnStartCaughtSeen ==
    /\ oPc = "returned"
    /\ oSampled
    /\ raised = "AttributeError"
    /\ spans = <<oSpan>>

IsProduce(c) == c.op = "produce"

Produces == SelectSeq(calls, IsProduce)

IsLowerHex(str) == \A k \in DOMAIN str : \E d \in DOMAIN HexDigits : HexDigits[d] = str[k]

RECURSIVE HexValue(_)
HexValue(str) ==
    IF str = <<>> THEN 0
    ELSE 16 * HexValue(SubSeq(str, 1, Len(str) - 1))
         + (CHOOSE d \in DOMAIN HexDigits : HexDigits[d] = str[Len(str)]) - 1

NoDeliveryError ==
    /\ pc = "done" /\ EnteredOpen /\ raised = "none" /\ ~ConfigAbsent(self)
    /\ ~ErrorReported

\* C11: every produce call carries the configured topic, as key the trace id of
\* the span being processed written as 32 lowercase hexadecimal digits, and as
\* value the encoded document of that same span; in a batch without delivery
\* error the messages are in batch order, one per span.
MessageOfCurrentSpan ==
    /\ \A j \in DOMAIN calls :
          calls[j].op = "produce" =>
             LET span == spans[calls[j].i] IN
             /\ calls[j].topic = self.kafkatopic
             /\ Len(calls[j].key) = 32
             /\ IsLowerHex(calls[j].key)
             /\ HexValue(calls[j].key) = span.trace_id
             /\ calls[j].value["trace_id"] = calls[j].key
             /\ calls[j].value["kind"] = <<"SpanKind.", span.kind>>
             /\ calls[j].value = serialize(SpanOf(span), self, ProcessEnv, 0)
    /\ NoDeliveryError =>
          /\ Len(Produces) = Len(spans)
          /\ \A k \in DOMAIN Produces : Produces[k].i = k

MessageOfCurrentSpanSeen ==
    /\ NoDeliveryError
    /\ Len(spans) = 3
    /\ spans[1].trace_id # spans[2].trace_id
    /\ spans[2].trace_id # spans[3].trace_id
    /\ Len(Produces) = 3
    /\ self.kafkatopic = "traces"

\* C12: the calls of an export are produce(s1), flush, produce(s2), flush, ...:
\* a produce call that returns is followed at once by the flush of the same
\* span, and no two produce calls are made without a flush between them.
FlushBetweenPublishes ==
    /\ \A j \in DOMAIN calls :
          calls[j].op = "produce" =>
             /\ j > 1 => calls[j - 1].op = "flush"
             /\ calls[j].res # "Raise" =>
                   /\ j < Len(calls)
                   /\ calls[j + 1].op = "flush"
                   /\ calls[j + 1].i = calls[j].i
             /\ calls[j].res = "Raise" => j = Len(calls) /\ raised # "none"
    /\ NoDeliveryError =>
          /\ Len(calls) = 2 * Len(spans)
          /\ \A k \in 1..Len(spans) :
                /\ calls[2 * k - 1].op = "produce" /\ calls[2 * k - 1].i = k
                /\ calls[2 * k].op = "flush" /\ calls[2 * k].i = k

FlushBetweenPublishesSeen ==
    /\ NoDeliveryError
    /\ Len(spans) = 3
    /\ Len(calls) = 6
    /\ calls[2].op = "flush" /\ calls[2].i = 1
    /\ calls[3].op = "produce" /\ calls[3].i = 2

\* C13: on entry of an export call service_name becomes the service name of the
\* first span's resource, before any span is encoded; it is left as it was when
\* the resource has no service name, the batch is empty or the exporter is
\* closed, and no other step changes it.
ServiceNameFromFirstSpan ==
    /\ [][self'.service_name =
             IF pc = "idle" /\ pc' # "idle" /\ ~self.closed
                /\ spans' # <<>> /\ resource' # ""
             THEN resource' ELSE self.service_name]_vars
    /\ [](\A j \in DOMAIN calls :
             calls[j].op = "produce" =>
                /\ calls[j].value["service_name"] = <<self.service_name>>
                /\ resource # "" => calls[j].value["service_name"] = <<resource>>)

ServiceNameFromFirstSpanSeen ==
    /\ pc = "done" /\ EnteredOpen /\ raised = "none"
    /\ resource = "svcA"
    /\ self.service_name = "svcA"
    /\ Len(Produces) = 2
    /\ Produces[1].value["service_name"] = <<"svcA">>

\* C14 (as claimed): service_name is guarded against concurrent export calls:
\* in every interleaving of two export calls, every document the first call
\* publishes carries the service name of the first call's own batch.
ServiceNameGuarded ==
    resource # "" =>
        \A j \in DOMAIN calls :
            calls[j].op = "produce" => calls[j].value["service_name"] = <<resource>>

Encoded == doc # <<>>

\* the 16-digit lowercase hexadecimal text of a span id
IsSpanIdText(str, id) == Len(str) = 16 /\ IsLowerHex(str) /\ HexValue(str) = id

\* C15 (as claimed): the document of a span with a parent holds the parent's
\* span id in the 16-digit encoding; the document of a span without a parent
\* has no parent field at all, not even a key with a null value.
ParentFieldOmittedForRoot ==
    Encoded =>
        IF encIn.span.parent.present
        THEN /\ "parent_id" \in DOMAIN doc
             /\ ~doc["parent_id"].null
             /\ IsSpanIdText(doc["parent_id"].v, encIn.span.parent.val)
        ELSE /\ "parent_id" \notin DOMAIN doc
             /\ "parentId" \notin DOMAIN doc

\* C15 (amended): with a parent, parent_id and parentId both hold the parent's
\* span id in the 16-digit encoding of span_id; without a parent, parent_id is
\* present with the null value and parentId is absent.
ParentFieldNullForRoot ==
    Encoded =>
        /\ "parent_id" \in DOMAIN doc
        /\ IsSpanIdText(doc["span_id"], encIn.span.span_id)
        /\ IF encIn.span.parent.present
           THEN /\ ~doc["parent_id"].null
                /\ IsSpanIdText(doc["parent_id"].v, encIn.span.parent.val)
                /\ "parentId" \in DOMAIN doc
                /\ IsSpanIdText(doc["parentId"], encIn.span.parent.val)
           ELSE /\ doc["parent_id"] = JNull
                /\ "parentId" \notin DOMAIN doc

ParentFieldNullForRootSeen ==
    /\ Encoded
    /\ ~encIn.span.parent.present
    /\ doc["parent_id"] = JNull

\* round(nsec / 1000): the integer nearest to nsec / 1000
IsUsecOf(usec, nsec) == 1000 * usec <= nsec + 500 /\ nsec + 500 < 1000 * usec + 1000

HasEndFields == "end_time" \in DOMAIN doc /\ "duration" \in DOMAIN doc

NoEndFields == "end_time" \notin DOMAIN doc /\ "duration" \notin DOMAIN doc

\* C16 (as claimed): end_time and duration are in the document exactly when the
\* span's end_time is not null, and duration is the rounded end time minus the
\* rounded start time.
DurationIsDifferenceOfRounded ==
    Encoded =>
        IF encIn.span.end_time.present
        THEN /\ HasEndFields
             /\ doc["duration"] = doc["end_time"] - doc["start_time"]
        ELSE NoEndFields

\* C16 (amended): end_time and duration are in the document exactly when the
\* span's end_time is neither null nor zero; end_time is the end time rounded to
\* microseconds and duration is the rounded difference of end and start time,
\* which is within one microsecond of end_time - start_time.
DurationIsRoundedDifference ==
    Encoded =>
        IF encIn.span.end_time.present /\ encIn.span.end_time.val # 0
        THEN /\ HasEndFields
             /\ IsUsecOf(doc["start_time"], encIn.span.start_time)
             /\ IsUsecOf(doc["end_time"], encIn.span.end_time.val)
             /\ IsUsecOf(doc["duration"],
                         encIn.span.end_time.val - encIn.span.start_time)
             /\ doc["duration"] - (doc["end_time"] - doc["start_time"]) \in {-1, 0, 1}
        ELSE NoEndFields

DurationIsRoundedDifferenceSeen ==
    /\ Encoded
    /\ encIn.span.start_time = 600
    /\ encIn.span.end_time = Some(1400)
    /\ doc["duration"] = 1
    /\ doc["end_time"] - doc["start_time"] = 0

DefaultTagKeys == {"location.site", "enduser.id", "deployment.environment"}

\* the tag of an attribute value: the value, cut to max characters when max > 0
IsTagOf(tag, v, max) ==
    IF max > 0 /\ Len(v) > max
    THEN Len(tag) = max /\ \A k \in 1..max : tag[k] = v[k]
    ELSE tag = v

\* C17: a span attribute named location.site, enduser.id or
\* deployment.environment is never overridden by the default taken from the
\* environment: the document holds the tag of the attribute's value.
AttributeWinsOverDefault ==
    Encoded =>
        \A k \in DOMAIN encIn.span.attributes \cap DefaultTagKeys :
            /\ k \in DOMAIN doc
            /\ IsTagOf(doc[k], encIn.span.attributes[k], encIn.max_tag_value_length)

AttributeWinsOverDefaultSeen ==
    /\ Encoded
    /\ encIn.env.SITE = Some(<<"sjc">>)
    /\ "location.site" \in DOMAIN encIn.span.attributes
    /\ encIn.span.attributes["location.site"] = <<"a">>
    /\ doc["location.site"] = <<"a">>

====
